---- MODULE Spec2Model ----
(***************************************************************************)
(* Model of the parts of lime-elements that carry logic:                   *)
(*   - splitEmailAddressList (email-viewer.tsx), the scan that splits a    *)
(*     To:/Cc: header value into recipients, and getHeaderValues, its      *)
(*     caller;                                                             *)
(*   - the remote-image policy of EmailViewer (email-viewer.tsx);          *)
(*   - findFirstError (form/widgets/code-editor.ts), the depth-first       *)
(*     search of an rjsf error schema;                                     *)
(*   - CodeEditor (form/widgets/code-editor.ts), the widget that shows     *)
(*     the result of that search.                                          *)
(* Strings are sequences of one-character strings.  JavaScript values are  *)
(* records [t, s, kids]: t is the type tag, s the payload of a primitive,  *)
(* kids the own enumerable properties in insertion order.                  *)
(***************************************************************************)
EXTENDS Integers, Sequences, FiniteSets, TLC

VARIABLES
    value,      \* splitEmailAddressList: the argument
    pos,        \* index of the character the for..of loop reads next
    current,    \* the token being accumulated
    parts,      \* the result array
    state,      \* AddressListSplitState
    seps,       \* history: positions at which the loop called flush()
    pc,         \* "scan" | "done" | "idle"
    schema,     \* findFirstError: the argument of the outermost call
    arg,        \* the argument of the call being entered
    stack,      \* the suspended calls: [node, keys, i] per for-loop
    retval,     \* the value the last finished call returned
    result,     \* the value the outermost call returned
    calls,      \* history: number of invocations of findFirstError
    tpc,        \* "enter" | "loop" | "ret" | "done" | "raised" | "idle"
    hType,      \* renderEmailHeader: the header kind, "none" outside a call
    headerValues,   \* what getHeaderValues returned
    allowRemoteImages,      \* EmailViewer: the prop, "undefined" when omitted
    allowRemoteImagesState, \* EmailViewer: the @State
    bodyHtml,   \* EmailViewer: the prop, a sequence of <img> elements
    emitted,    \* history: the values allowRemoteImagesChange has emitted
    clicks,     \* history: the number of clicks on the load-images button
    clickedSinceBody,   \* history: a click followed the last bodyHtml change
    banner,     \* the last render shows the load-images button
    renderedBody,   \* what the last renderBody produced
    vpc,        \* "live" | "idle"
    validationError,    \* CodeEditor: state.validationError
    modified,   \* CodeEditor: state.modified
    formData,   \* CodeEditor: props.formData
    errorSchema,    \* CodeEditor: props.errorSchema
    required,   \* CodeEditor: props.required
    hasOnChange,    \* CodeEditor: props.onChange is given
    onChangeArgs,   \* history: the arguments of the calls of props.onChange
                    \* made by the last change event
    widget,     \* the props render gave limel-code-editor
    consulted,  \* history: the last render called findFirstError
    lastEvent,  \* history: the last event the CodeEditor handled
    formDataChanged,    \* prevProps.formData !== this.props.formData
    lastChange, \* history: the text of the last change event, and what
                \* props.onChange did or would have done when called
    lastCounted,    \* history: "change" | "formData" | "none", the later of
                    \* the last change event and the last change of formData
    handlerAlways,  \* history: props.onChange has been given all along
    epc         \* "live" | "updated" (componentDidUpdate is due) | "idle"

splitVars == <<value, pos, current, parts, state, seps, pc>>
treeVars == <<schema, arg, stack, retval, result, calls, tpc>>
headerVars == <<hType, headerValues>>
viewerVars ==
    <<allowRemoteImages, allowRemoteImagesState, bodyHtml, emitted, clicks,
      clickedSinceBody, banner, renderedBody, vpc>>
editorVars ==
    <<validationError, modified, formData, errorSchema, required, hasOnChange,
      onChangeArgs, widget, consulted, lastEvent, formDataChanged, lastChange,
      lastCounted, handlerAlways, epc>>
vars == <<value, pos, current, parts, state, seps, pc,
          schema, arg, stack, retval, result, calls, tpc,
          hType, headerValues,
          allowRemoteImages, allowRemoteImagesState, bodyHtml, emitted, clicks,
          clickedSinceBody, banner, renderedBody, vpc,
          validationError, modified, formData, errorSchema, required,
          hasOnChange, onChangeArgs, widget, consulted, lastEvent,
          formDataChanged, lastChange, lastCounted, handlerAlways, epc>>

\* Bounds of the model.
MaxLen == 4
MaxNodes == 3

(***************************************************************************)
(* JavaScript values                                                       *)
(***************************************************************************)
Prim(t, s) == [t |-> t, s |-> s, kids |-> <<>>]
Undefined == Prim("undefined", "")
Null == Prim("null", "")
Str(s) == Prim("string", s)
Num(s) == Prim("number", s)
Bool(s) == Prim("boolean", s)

\* The canonical array-index property names, in ascending numeric order.
IndexKeySeq == <<"0", "1", "2", "3", "4", "5">>
IndexKeys == {IndexKeySeq[i] : i \in 1..Len(IndexKeySeq)}

Obj(entries) == [t |-> "object", s |-> "", kids |-> entries]
Arr(elems) ==
    [t |-> "array", s |-> "",
     kids |-> <<>> \o [i \in 1..Len(elems) |-> [k |-> IndexKeySeq[i], v |-> elems[i]]]]
Entry(k, v) == [k |-> k, v |-> v]

(***************************************************************************)
(* The components a specification does not exercise stay as constructed.   *)
(***************************************************************************)
HeaderIdle ==
    /\ hType = "none"
    /\ headerValues = <<>>

ViewerIdle ==
    /\ allowRemoteImages = "undefined"
    /\ allowRemoteImagesState = FALSE
    /\ bodyHtml = <<>>
    /\ emitted = <<>>
    /\ clicks = 0
    /\ clickedSinceBody = FALSE
    /\ banner = FALSE
    /\ renderedBody = [kind |-> "none", elements |-> <<>>]
    /\ vpc = "idle"

EditorIdle ==
    /\ validationError = ""
    /\ modified = FALSE
    /\ formData = Undefined
    /\ errorSchema = Undefined
    /\ required = Undefined
    /\ hasOnChange = FALSE
    /\ onChangeArgs = <<>>
    /\ widget = [value |-> Undefined, invalid |-> FALSE, helperText |-> Undefined]
    /\ consulted = FALSE
    /\ lastEvent = "none"
    /\ formDataChanged = FALSE
    /\ lastChange = [text |-> "none", behaviour |-> [name |-> "", message |-> ""]]
    /\ lastCounted = "none"
    /\ handlerAlways = FALSE
    /\ epc = "idle"

(***************************************************************************)
(* splitEmailAddressList                                                   *)
(***************************************************************************)
Whitespace == {" ", "\t", "\n", "\r"}

SetMin(S) == CHOOSE x \in S : \A y \in S : x <= y
SetMax(S) == CHOOSE x \in S : \A y \in S : x >= y

\* String.prototype.trim
Trim(s) ==
    LET solid == {i \in 1..Len(s) : s[i] \notin Whitespace}
    IN  IF solid = {} THEN <<>> ELSE SubSeq(s, SetMin(solid), SetMax(solid))

InitialState == [inQuotes |-> FALSE, escapeNext |-> FALSE, angleDepth |-> 0]

\* const append = (character) => { current += character }
append(cur, character) == Append(cur, character)

\* Variant of flush that pushes the token untrimmed.
flush_noTrim(cur, ps) ==
    [parts |-> IF Trim(cur) # <<>> THEN Append(ps, cur) ELSE ps,
     current |-> <<>>]

\* Variant of flush that pushes empty tokens too.
flush_keepEmpty(cur, ps) ==
    [parts |-> Append(ps, Trim(cur)), current |-> <<>>]

\* const flush = () => { ... }
flush(cur, ps) ==
    LET trimmed == Trim(cur)
    IN  [parts |-> IF trimmed # <<>> THEN Append(ps, trimmed) ELSE ps,
         current |-> <<>>]

Miss(st, cur) == [ret |-> FALSE, state |-> st, current |-> cur]

\* Variant of consumeEscaped that lets an escaped quote through to toggleQuote.
consumeEscaped_exceptQuote(character, st, cur) ==
    IF ~st.escapeNext \/ character = "\""
    THEN Miss(st, cur)
    ELSE [ret |-> TRUE,
          state |-> [st EXCEPT !.escapeNext = FALSE],
          current |-> append(cur, character)]

consumeEscaped(character, st, cur) ==
    IF ~st.escapeNext
    THEN Miss(st, cur)
    ELSE [ret |-> TRUE,
          state |-> [st EXCEPT !.escapeNext = FALSE],
          current |-> append(cur, character)]

\* Variant of beginEscape that honours a backslash outside a quoted run.
beginEscape_anywhere(character, st, cur) ==
    IF character # "\\"
    THEN Miss(st, cur)
    ELSE [ret |-> TRUE,
          state |-> [st EXCEPT !.escapeNext = TRUE],
          current |-> append(cur, character)]

beginEscape(character, st, cur) ==
    IF ~st.inQuotes \/ character # "\\"
    THEN Miss(st, cur)
    ELSE [ret |-> TRUE,
          state |-> [st EXCEPT !.escapeNext = TRUE],
          current |-> append(cur, character)]

\* Variant of toggleQuote that drops the quote character.
toggleQuote_noAppend(character, st, cur) ==
    IF character # "\"" \/ st.angleDepth # 0
    THEN Miss(st, cur)
    ELSE [ret |-> TRUE,
          state |-> [st EXCEPT !.inQuotes = ~st.inQuotes],
          current |-> cur]

\* Variant of toggleQuote that toggles inside <...> too.
toggleQuote_insideAngle(character, st, cur) ==
    IF character # "\""
    THEN Miss(st, cur)
    ELSE [ret |-> TRUE,
          state |-> [st EXCEPT !.inQuotes = ~st.inQuotes],
          current |-> append(cur, character)]

toggleQuote(character, st, cur) ==
    IF character # "\"" \/ st.angleDepth # 0
    THEN Miss(st, cur)
    ELSE [ret |-> TRUE,
          state |-> [st EXCEPT !.inQuotes = ~st.inQuotes],
          current |-> append(cur, character)]

\* Variant of adjustAngleDepth that closes a bracket that was never opened.
adjustAngleDepth_unguarded(character, st, cur) ==
    IF st.inQuotes
    THEN Miss(st, cur)
    ELSE IF character = "<"
    THEN [ret |-> TRUE,
          state |-> [st EXCEPT !.angleDepth = st.angleDepth + 1],
          current |-> append(cur, character)]
    ELSE IF character # ">"
    THEN Miss(st, cur)
    ELSE [ret |-> TRUE,
          state |-> [st EXCEPT !.angleDepth = st.angleDepth - 1],
          current |-> append(cur, character)]

adjustAngleDepth(character, st, cur) ==
    IF st.inQuotes
    THEN Miss(st, cur)
    ELSE IF character = "<"
    THEN [ret |-> TRUE,
          state |-> [st EXCEPT !.angleDepth = st.angleDepth + 1],
          current |-> append(cur, character)]
    ELSE IF character # ">" \/ st.angleDepth = 0
    THEN Miss(st, cur)
    ELSE [ret |-> TRUE,
          state |-> [st EXCEPT !.angleDepth = st.angleDepth - 1],
          current |-> append(cur, character)]

\* Variant of isAddressSeparator that splits inside <...>.
isAddressSeparator_ignoreAngle(character, st) ==
    character = "," /\ ~st.inQuotes

isAddressSeparator(character, st) ==
    character = "," /\ ~st.inQuotes /\ st.angleDepth = 0

\* The inputs: every string over Alphabet of at most MaxLen characters, and
\* the examples of the documentation.
Alphabet == {"a", " ", ",", "\"", "<", ">", "\\"}
Strings(n) == UNION {[1..k -> Alphabet] : k \in 0..n}

DoeJaneInput == <<"\"", "D", "o", "e", ",", " ", "J", "a", "n", "e", "\"", " ", "<", "j", "a", "n", "e", "@", "e", "x", "a", "m", "p", "l", "e", ".", "c", "o", "m", ">", ",", " ", "T", "e", "a", "m", " ", "<", "t", "e", "a", "m", "@", "e", "x", "a", "m", "p", "l", "e", ".", "c", "o", "m", ">">>
DoeJaneFirst == <<"\"", "D", "o", "e", ",", " ", "J", "a", "n", "e", "\"", " ", "<", "j", "a", "n", "e", "@", "e", "x", "a", "m", "p", "l", "e", ".", "c", "o", "m", ">">>
DoeJaneSecond == <<"T", "e", "a", "m", " ", "<", "t", "e", "a", "m", "@", "e", "x", "a", "m", "p", "l", "e", ".", "c", "o", "m", ">">>
AbcInput == <<"a", ",", "b", ",", ",", "c">>
AngleInput == <<"<", "a", "@", "e", "x", "a", "m", "p", "l", "e", ".", "c", "o", "m", ">", ",", " ", "<", "b", "@", "e", "x", "a", "m", "p", "l", "e", ".", "c", "o", "m", ">">>
EscapedInput == <<"\"", "a", "\\", "\"", ",", "\t", "b", "\"", " ", ",", "\\", "c", ",">>
SpacedInput == <<" ", "a", " ", ",", " ", ",", "\t", "b", ",">>
ExampleInputs ==
    {DoeJaneInput, AbcInput, AngleInput, EscapedInput, SpacedInput}

TreeIdle ==
    /\ schema = Undefined
    /\ arg = Undefined
    /\ stack = <<>>
    /\ retval = Undefined
    /\ result = Undefined
    /\ calls = 0
    /\ tpc = "idle"

InitSplit ==
    /\ value \in Strings(MaxLen) \cup ExampleInputs
    /\ pos = 1
    /\ current = <<>>
    /\ parts = <<>>
    /\ state = InitialState
    /\ seps = {}
    /\ pc = "scan"
    /\ TreeIdle
    /\ HeaderIdle
    /\ ViewerIdle
    /\ EditorIdle

Reading == pc = "scan" /\ pos <= Len(value)

\* One iteration of the for..of loop that ends in the `continue` of the
\* helper r, or in the final append when r is a miss of every helper.
Advance(r) ==
    /\ state' = r.state
    /\ current' = r.current
    /\ pos' = pos + 1
    /\ UNCHANGED <<value, parts, seps, pc>>
    /\ UNCHANGED <<treeVars, headerVars, viewerVars, editorVars>>

ConsumeEscaped ==
    /\ Reading
    /\ LET r == consumeEscaped(value[pos], state, current)
       IN  r.ret /\ Advance(r)

BeginEscape ==
    /\ Reading
    /\ ~consumeEscaped(value[pos], state, current).ret
    /\ LET r == beginEscape(value[pos], state, current)
       IN  r.ret /\ Advance(r)

ToggleQuote ==
    /\ Reading
    /\ ~consumeEscaped(value[pos], state, current).ret
    /\ ~beginEscape(value[pos], state, current).ret
    /\ LET r == toggleQuote(value[pos], state, current)
       IN  r.ret /\ Advance(r)

AdjustAngleDepth ==
    /\ Reading
    /\ ~consumeEscaped(value[pos], state, current).ret
    /\ ~beginEscape(value[pos], state, current).ret
    /\ ~toggleQuote(value[pos], state, current).ret
    /\ LET r == adjustAngleDepth(value[pos], state, current)
       IN  r.ret /\ Advance(r)

NoHelper ==
    /\ ~consumeEscaped(value[pos], state, current).ret
    /\ ~beginEscape(value[pos], state, current).ret
    /\ ~toggleQuote(value[pos], state, current).ret
    /\ ~adjustAngleDepth(value[pos], state, current).ret

Separator ==
    /\ Reading
    /\ NoHelper
    /\ isAddressSeparator(value[pos], state)
    /\ LET f == flush(current, parts)
       IN  /\ parts' = f.parts
           /\ current' = f.current
    /\ seps' = seps \cup {pos}
    /\ pos' = pos + 1
    /\ UNCHANGED <<value, state, pc>>
    /\ UNCHANGED <<treeVars, headerVars, viewerVars, editorVars>>

AppendCharacter ==
    /\ Reading
    /\ NoHelper
    /\ ~isAddressSeparator(value[pos], state)
    /\ Advance([state |-> state, current |-> append(current, value[pos])])

\* Variant of EndOfInput that discards a token left in an unbalanced state.
EndOfInput_dropUnterminated ==
    /\ pc = "scan"
    /\ pos > Len(value)
    /\ LET f == flush(current, parts)
       IN  /\ parts' = IF state.inQuotes \/ state.angleDepth > 0 \/ state.escapeNext
                       THEN parts ELSE f.parts
           /\ current' = f.current
    /\ pc' = "done"
    /\ UNCHANGED <<value, pos, state, seps>>
    /\ UNCHANGED <<treeVars, headerVars, viewerVars, editorVars>>

\* flush(); return parts;
EndOfInput ==
    /\ pc = "scan"
    /\ pos > Len(value)
    /\ LET f == flush(current, parts)
       IN  /\ parts' = f.parts
           /\ current' = f.current
    /\ pc' = "done"
    /\ UNCHANGED <<value, pos, state, seps>>
    /\ UNCHANGED <<treeVars, headerVars, viewerVars, editorVars>>

NextSplit ==
    \/ ConsumeEscaped
    \/ BeginEscape
    \/ ToggleQuote
    \/ AdjustAngleDepth
    \/ Separator
    \/ AppendCharacter
    \/ EndOfInput

SpecSplit == InitSplit /\ [][NextSplit]_vars

FairSpecSplit == SpecSplit /\ WF_vars(NextSplit)

(***************************************************************************)
(* findFirstError                                                          *)
(***************************************************************************)
ErrorsKey == "__errors"

\* ToBoolean
Truthy(v) ==
    CASE v.t \in {"undefined", "null"} -> FALSE
      [] v.t = "string" -> v.s # ""
      [] v.t = "number" -> v.s \notin {"0", "NaN"}
      [] v.t = "boolean" -> v.s = "true"
      [] OTHER -> TRUE

\* typeof
TypeOf(v) == IF v.t \in {"object", "array", "null"} THEN "object" ELSE v.t

\* Array.isArray
IsArray(v) == v.t = "array"

\* key in v, for a v that is an object; on a primitive `in` throws.
CanHaveProperties(v) == v.t \in {"object", "array"}
HasProperty(v, key) == \E i \in 1..Len(v.kids) : v.kids[i].k = key

\* v[key]
Get(v, key) ==
    IF HasProperty(v, key)
    THEN v.kids[CHOOSE i \in 1..Len(v.kids) : v.kids[i].k = key].v
    ELSE Undefined

InsertionKeys(v) == [i \in 1..Len(v.kids) |-> v.kids[i].k]
IsIndexKey(key) == key \in IndexKeys
IsNamedKey(key) == key \notin IndexKeys

\* Variant of ObjectKeys that lists every key in insertion order.
ObjectKeys_insertionOrder(v) == InsertionKeys(v)

\* Object.keys: the integer-like keys in ascending numeric order, then the
\* other string keys in insertion order.
ObjectKeys(v) ==
    LET present == {v.kids[i].k : i \in 1..Len(v.kids)}
        IsPresent(key) == key \in present
    IN  SelectSeq(IndexKeySeq, IsPresent) \o SelectSeq(InsertionKeys(v), IsNamedKey)

\* Variant of isNotObject without the !schema test (typeof null is 'object').
isNotObject_typeofOnly(v) == TypeOf(v) # "object"

\* !schema || typeof schema !== 'object'
isNotObject(v) == ~Truthy(v) \/ TypeOf(v) # "object"

\* nested && typeof nested === 'object'
isNestedObject(nested) == Truthy(nested) /\ TypeOf(nested) = "object"

Outcome(kind, v) == [kind |-> kind, v |-> v]

\* Variant of localErrors that returns the last element.
localErrors_last(node) ==
    IF ~CanHaveProperties(node)
    THEN Outcome("TypeError", Undefined)
    ELSE IF /\ HasProperty(node, ErrorsKey)
            /\ IsArray(Get(node, ErrorsKey))
            /\ Len(Get(node, ErrorsKey).kids) > 0
    THEN Outcome("found",
                 Get(node, ErrorsKey).kids[Len(Get(node, ErrorsKey).kids)].v)
    ELSE Outcome("none", Undefined)

\* Variant of localErrors that takes an array node for a list of messages.
localErrors_arrayAsMessages(node) ==
    IF ~CanHaveProperties(node)
    THEN Outcome("TypeError", Undefined)
    ELSE IF IsArray(node) /\ Len(node.kids) > 0
    THEN Outcome("found", node.kids[1].v)
    ELSE IF /\ HasProperty(node, ErrorsKey)
            /\ IsArray(Get(node, ErrorsKey))
            /\ Len(Get(node, ErrorsKey).kids) > 0
    THEN Outcome("found", Get(node, ErrorsKey).kids[1].v)
    ELSE Outcome("none", Undefined)

\* if ('__errors' in schema && Array.isArray(schema.__errors)) { ... }
\* Variant of localErrors in which any __errors array, even an empty one,
\* ends the search at the node.
localErrors_emptyStops(node) ==
    IF ~CanHaveProperties(node)
    THEN Outcome("TypeError", Undefined)
    ELSE IF HasProperty(node, ErrorsKey) /\ IsArray(Get(node, ErrorsKey))
    THEN Outcome("found",
                 IF Len(Get(node, ErrorsKey).kids) > 0
                 THEN Get(node, ErrorsKey).kids[1].v
                 ELSE Undefined)
    ELSE Outcome("none", Undefined)

localErrors(node) ==
    IF ~CanHaveProperties(node)
    THEN Outcome("TypeError", Undefined)
    ELSE IF /\ HasProperty(node, ErrorsKey)
            /\ IsArray(Get(node, ErrorsKey))
            /\ Len(Get(node, ErrorsKey).kids) > 0
    THEN Outcome("found", Get(node, ErrorsKey).kids[1].v)
    ELSE Outcome("none", Undefined)

\* The inputs: every value of at most MaxNodes nodes (objects, arrays and
\* primitives outside __errors) built from the sets below, and the examples.
ChildKeys == {"a", "0"}
Atoms == {Null, Str("E3")}
ErrVals ==
    {Arr(<<>>), Arr(<<Str("")>>), Arr(<<Str("E1")>>), Arr(<<Str("E2"), Str("E1")>>)}
ErrOptions == {<<>>} \cup {<<Entry(ErrorsKey, x)>> : x \in ErrVals}

\* The ways to make a value of a sequence of children: an array, or an
\* object with or without an __errors entry before the children.
Shapes ==
    {[array |-> TRUE, errs |-> <<>>]}
        \cup {[array |-> FALSE, errs |-> e] : e \in ErrOptions}

\* The sequences of distinct child keys of an object of n children.
KeySeqs(n) ==
    {ks \in [1..n -> ChildKeys] : \A i, j \in 1..n : ks[i] = ks[j] => i = j}
AllKeySeqs == UNION {KeySeqs(n) : n \in 0..Cardinality(ChildKeys)}

Make(vs, ks, shape) ==
    IF shape.array
    THEN Arr(vs)
    ELSE Obj(shape.errs \o [i \in 1..Len(vs) |-> Entry(ks[i], vs[i])])

\* An array has one key sequence, an object one of the length of vs.
IsShapeOf(vs, ks, shape) ==
    IF shape.array
    THEN ks = <<>> /\ Len(vs) <= Len(IndexKeySeq)
    ELSE Len(ks) = Len(vs)

\* Generated(n).vals[k] is the set of the values of exactly k nodes and
\* Generated(n).seqs[k] the set of the sequences of values of k - 1 nodes in
\* total (the children of a value of k nodes), for k up to n.
RECURSIVE Generated(_)
Generated(n) ==
    IF n = 0
    THEN [vals |-> <<>>, seqs |-> <<>>]
    ELSE LET p == Generated(n - 1)
             kids == IF n = 1
                     THEN {<<>>}
                     ELSE UNION {{<<v>> \o rest : v \in p.vals[j], rest \in p.seqs[n - j]} :
                                    j \in 1..(n - 1)}
             made == {Make(x[1], x[2], x[3]) :
                         x \in {y \in kids \X AllKeySeqs \X Shapes :
                                   IsShapeOf(y[1], y[2], y[3])}}
         IN  [vals |-> Append(p.vals, IF n = 1 THEN Atoms \cup made ELSE made),
              seqs |-> Append(p.seqs, kids)]

ErrorsOnly(msgs) == Obj(<<Entry(ErrorsKey, Arr(msgs))>>)
RequiredTree == ErrorsOnly(<<Str("Required")>>)
BadABTree ==
    Obj(<<Entry("a", ErrorsOnly(<<Str("Bad a")>>)),
          Entry("b", ErrorsOnly(<<Str("Bad b")>>))>>)
TopNestedTree ==
    Obj(<<Entry(ErrorsKey, Arr(<<Str("Top")>>)),
          Entry("a", ErrorsOnly(<<Str("Nested")>>))>>)
DeepTree == Obj(<<Entry("a", Obj(<<Entry("b", ErrorsOnly(<<Str("Deep")>>))>>))>>)
DeeperTree ==
    Obj(<<Entry("b", Arr(<<Str("E3"), ErrorsOnly(<<Str("")>>)>>)),
          Entry("a", Obj(<<Entry("0", DeepTree)>>))>>)
ErrorsLastTree ==
    Obj(<<Entry("a", ErrorsOnly(<<Str("E1")>>)),
          Entry(ErrorsKey, Arr(<<Str("E2")>>))>>)
NonArrayErrorsTree ==
    Obj(<<Entry(ErrorsKey, Str("E1")), Entry("a", ErrorsOnly(<<Str("E2")>>))>>)
ObjectUnderErrorsTree ==
    Obj(<<Entry(ErrorsKey, Obj(<<Entry("a", ErrorsOnly(<<Str("E9")>>))>>))>>)
IndexOrderTree ==
    Obj(<<Entry("b", ErrorsOnly(<<Str("")>>)),
          Entry("1", ErrorsOnly(<<Str("E1")>>)),
          Entry("0", ErrorsOnly(<<Str("E2")>>))>>)
NonArrayErrorsOrderTree ==
    Obj(<<Entry(ErrorsKey, Str("E1")),
          Entry("a", ErrorsOnly(<<Str("E1")>>)),
          Entry("0", ErrorsOnly(<<Str("E2")>>))>>)
EmptyErrorsLastTree ==
    Obj(<<Entry("a", Obj(<<>>)), Entry(ErrorsKey, Arr(<<>>)),
          Entry("b", ErrorsOnly(<<Str("E1")>>))>>)
ExampleTrees ==
    {RequiredTree, BadABTree, TopNestedTree, DeepTree, DeeperTree, IndexOrderTree,
     ErrorsLastTree, NonArrayErrorsTree, ObjectUnderErrorsTree,
     NonArrayErrorsOrderTree, EmptyErrorsLastTree,
     Undefined, Str("not an object"), Str(""), Num("0"), Num("1"),
     Bool("true"), Bool("false")}


SplitIdle ==
    /\ value = <<>>
    /\ pos = 1
    /\ current = <<>>
    /\ parts = <<>>
    /\ state = InitialState
    /\ seps = {}
    /\ pc = "idle"

InitTree ==
    /\ \/ \E k \in 1..MaxNodes : schema \in Generated(MaxNodes).vals[k]
       \/ schema \in ExampleTrees
    /\ arg = schema
    /\ stack = <<>>
    /\ retval = Undefined
    /\ result = Undefined
    /\ calls = 1
    /\ tpc = "enter"
    /\ SplitIdle
    /\ HeaderIdle
    /\ ViewerIdle
    /\ EditorIdle

\* The innermost suspended for-loop, its current key and that key's value.
Top == stack[Len(stack)]
Key == Top.keys[Top.i]
Nested == Get(Top.node, Key)
Pop == SubSeq(stack, 1, Len(stack) - 1)
NextKey == [stack EXCEPT ![Len(stack)].i = Top.i + 1]
InLoop == tpc = "loop" /\ Top.i <= Len(Top.keys)

\* return undefined (not an object)
ReturnNotObject ==
    /\ tpc = "enter"
    /\ isNotObject(arg)
    /\ retval' = Undefined
    /\ tpc' = "ret"
    /\ UNCHANGED <<schema, arg, stack, result, calls>>
    /\ UNCHANGED <<splitVars, headerVars, viewerVars, editorVars>>

\* return errors[0]
ReturnLocalError ==
    /\ tpc = "enter"
    /\ ~isNotObject(arg)
    /\ localErrors(arg).kind = "found"
    /\ retval' = localErrors(arg).v
    /\ tpc' = "ret"
    /\ UNCHANGED <<schema, arg, stack, result, calls>>
    /\ UNCHANGED <<splitVars, headerVars, viewerVars, editorVars>>

\* for (const key of Object.keys(schema))
EnterLoop ==
    /\ tpc = "enter"
    /\ ~isNotObject(arg)
    /\ localErrors(arg).kind # "found"
    /\ IF localErrors(arg).kind = "TypeError"
       THEN tpc' = "raised" /\ stack' = stack
       ELSE /\ stack' = Append(stack, [node |-> arg, keys |-> ObjectKeys(arg), i |-> 1])
            /\ tpc' = "loop"
    /\ UNCHANGED <<schema, arg, retval, result, calls>>
    /\ UNCHANGED <<splitVars, headerVars, viewerVars, editorVars>>

\* if (key === '__errors') continue
SkipErrorsKey ==
    /\ InLoop
    /\ Key = ErrorsKey
    /\ stack' = NextKey
    /\ UNCHANGED <<schema, arg, retval, result, calls, tpc>>
    /\ UNCHANGED <<splitVars, headerVars, viewerVars, editorVars>>

\* nested is not an object: next key
SkipNonObject ==
    /\ InLoop
    /\ Key # ErrorsKey
    /\ ~isNestedObject(Nested)
    /\ stack' = NextKey
    /\ UNCHANGED <<schema, arg, retval, result, calls, tpc>>
    /\ UNCHANGED <<splitVars, headerVars, viewerVars, editorVars>>

\* const found = findFirstError(nested)
Recurse ==
    /\ InLoop
    /\ Key # ErrorsKey
    /\ isNestedObject(Nested)
    /\ arg' = Nested
    /\ calls' = calls + 1
    /\ tpc' = "enter"
    /\ UNCHANGED <<schema, stack, retval, result>>
    /\ UNCHANGED <<splitVars, headerVars, viewerVars, editorVars>>

\* if (found) return found
ReturnFound ==
    /\ tpc = "ret"
    /\ stack # <<>>
    /\ Truthy(retval)
    /\ stack' = Pop
    /\ UNCHANGED <<schema, arg, retval, result, calls, tpc>>
    /\ UNCHANGED <<splitVars, headerVars, viewerVars, editorVars>>

\* found is falsy: next key
ContinueLoop ==
    /\ tpc = "ret"
    /\ stack # <<>>
    /\ ~Truthy(retval)
    /\ stack' = NextKey
    /\ tpc' = "loop"
    /\ UNCHANGED <<schema, arg, retval, result, calls>>
    /\ UNCHANGED <<splitVars, headerVars, viewerVars, editorVars>>

\* return undefined (after the loop)
LoopExhausted ==
    /\ tpc = "loop"
    /\ Top.i > Len(Top.keys)
    /\ stack' = Pop
    /\ retval' = Undefined
    /\ tpc' = "ret"
    /\ UNCHANGED <<schema, arg, result, calls>>
    /\ UNCHANGED <<splitVars, headerVars, viewerVars, editorVars>>

\* The outermost call returns to its caller.
ReturnToCaller ==
    /\ tpc = "ret"
    /\ stack = <<>>
    /\ result' = retval
    /\ tpc' = "done"
    /\ UNCHANGED <<schema, arg, stack, retval, calls>>
    /\ UNCHANGED <<splitVars, headerVars, viewerVars, editorVars>>

NextTree ==
    \/ ReturnNotObject
    \/ ReturnLocalError
    \/ EnterLoop
    \/ SkipErrorsKey
    \/ SkipNonObject
    \/ Recurse
    \/ ReturnFound
    \/ ContinueLoop
    \/ LoopExhausted
    \/ ReturnToCaller

SpecTree == InitTree /\ [][NextTree]_vars
FairSpecTree == SpecTree /\ WF_vars(NextTree)

(***************************************************************************)
(* EmailViewer.renderEmailHeader and getHeaderValues                       *)
(***************************************************************************)
HeaderTypes == {"subject", "from", "to", "cc", "date"}

\* Variant of the test of getHeaderValues that takes `from` for a list too.
isAddressListHeader_withFrom(type) == type = "to" \/ type = "cc" \/ type = "from"

\* type === 'to' || type === 'cc'
isAddressListHeader(type) == type = "to" \/ type = "cc"

\* renderEmailHeader(type, label, value) is about to run.
InitHeader ==
    /\ hType \in HeaderTypes
    /\ headerValues = <<>>
    /\ value \in Strings(MaxLen) \cup ExampleInputs
    /\ pos = 1
    /\ current = <<>>
    /\ parts = <<>>
    /\ state = InitialState
    /\ seps = {}
    /\ pc = "header"
    /\ TreeIdle
    /\ ViewerIdle
    /\ EditorIdle

\* if (!value) return
RenderNothing ==
    /\ pc = "header"
    /\ value = <<>>
    /\ pc' = "skipped"
    /\ UNCHANGED <<value, pos, current, parts, state, seps>>
    /\ UNCHANGED <<treeVars, headerVars, viewerVars, editorVars>>

\* return splitEmailAddressList(value): the call
CallSplit ==
    /\ pc = "header"
    /\ value # <<>>
    /\ isAddressListHeader(hType)
    /\ pc' = "scan"
    /\ UNCHANGED <<value, pos, current, parts, state, seps>>
    /\ UNCHANGED <<treeVars, headerVars, viewerVars, editorVars>>

\* return splitEmailAddressList(value): the values are what the call returned
ReturnSplit ==
    /\ pc = "done"
    /\ hType \in HeaderTypes
    /\ headerValues' = parts
    /\ pc' = "returned"
    /\ UNCHANGED <<value, pos, current, parts, state, seps, hType>>
    /\ UNCHANGED <<treeVars, viewerVars, editorVars>>

\* return [value]
ReturnRaw ==
    /\ pc = "header"
    /\ value # <<>>
    /\ ~isAddressListHeader(hType)
    /\ headerValues' = <<value>>
    /\ pc' = "returned"
    /\ UNCHANGED <<value, pos, current, parts, state, seps, hType>>
    /\ UNCHANGED <<treeVars, viewerVars, editorVars>>

NextHeader ==
    \/ RenderNothing
    \/ CallSplit
    \/ ConsumeEscaped
    \/ BeginEscape
    \/ ToggleQuote
    \/ AdjustAngleDepth
    \/ Separator
    \/ AppendCharacter
    \/ EndOfInput
    \/ ReturnSplit
    \/ ReturnRaw

SpecHeader == InitHeader /\ [][NextHeader]_vars

(***************************************************************************)
(* EmailViewer: remote images                                              *)
(***************************************************************************)
MaxElements == 1
MaxClicks == 2

\* An attribute of an element: absent, or present with a value.
NoAttr == [present |-> FALSE, v |-> <<>>]
Attr(u) == [present |-> TRUE, v |-> u]
\* bodyHtml is a sequence of elements: <p> or <img src data-remote-src>.
Paragraph == [tag |-> "p", src |-> NoAttr, remoteSrc |-> NoAttr]
Img(src, remoteSrc) == [tag |-> "img", src |-> src, remoteSrc |-> remoteSrc]

HttpsUrl == <<"h", "t", "t", "p", "s", ":", "/", "/", "x">>
HttpUrl == <<"h", "t", "t", "p", ":", "/", "/", "x">>
PaddedUpperUrl == <<" ", "H", "T", "T", "P", "S", ":", "/", "/", "x">>
ScriptUrl == <<"j", "a", "v", "a", "s", "c", "r", "i", "p", "t", ":", "x">>
EmptyUrl == <<>>
InnerHttpUrl == <<"x", "h", "t", "t", "p", ":", "/", "/", "x">>
BlankUrl == <<" ">>
CidUrl == <<"c", "i", "d", ":", "1">>
HttpPrefix == <<"h", "t", "t", "p", ":", "/", "/">>
HttpsPrefix == <<"h", "t", "t", "p", "s", ":", "/", "/">>
RemoteUrls ==
    {HttpsUrl, HttpUrl, PaddedUpperUrl, ScriptUrl, EmptyUrl, InnerHttpUrl, BlankUrl}
Elements ==
    {Paragraph, Img(Attr(CidUrl), NoAttr), Img(Attr(CidUrl), Attr(HttpsUrl)),
     Img(Attr(CidUrl), Attr(ScriptUrl))}
        \cup {Img(NoAttr, Attr(u)) : u \in RemoteUrls}
Bodies == UNION {[1..n -> Elements] : n \in 0..MaxElements}

\* String.prototype.toLowerCase, on the letters of the alphabet above.
LowerCharacter(c) ==
    CASE c = "H" -> "h"
      [] c = "T" -> "t"
      [] c = "P" -> "p"
      [] c = "S" -> "s"
      [] OTHER -> c
toLowerCase(s) == [i \in 1..Len(s) |-> LowerCharacter(s[i])]
startsWith(s, prefix) ==
    Len(s) >= Len(prefix) /\ SubSeq(s, 1, Len(prefix)) = prefix

\* Variant of isAllowedRemoteImageUrl that accepts every scheme.
isAllowedRemoteImageUrl_anyScheme(url) == TRUE

isAllowedRemoteImageUrl(url) ==
    LET trimmed == Trim(url)
        lower == toLowerCase(trimmed)
    IN  startsWith(lower, HttpsPrefix) \/ startsWith(lower, HttpPrefix)

\* html.includes('data-remote-src')
containsRemoteImages(html) ==
    \E i \in 1..Len(html) : html[i].remoteSrc.present

\* One <img data-remote-src> of the loop of applyRemoteImagesPolicy.
promote(image) ==
    LET remoteSrc == image.remoteSrc.v
    IN  IF remoteSrc = <<>> \/ ~isAllowedRemoteImageUrl(remoteSrc)
        THEN [image EXCEPT !.remoteSrc = NoAttr]
        ELSE [image EXCEPT !.src = Attr(remoteSrc), !.remoteSrc = NoAttr]

\* The result is the html itself, or the serialization of the parsed and
\* changed document.
applyRemoteImagesPolicy(html, allow) ==
    IF ~allow
    THEN [kind |-> "verbatim", elements |-> html]
    ELSE [kind |-> "serialized",
          elements |-> [i \in 1..Len(html) |->
                           IF html[i].tag = "img" /\ html[i].remoteSrc.present
                           THEN promote(html[i])
                           ELSE html[i]]]

\* this.allowRemoteImages ?? this.allowRemoteImagesState
getAllowRemoteImages(prop, st) ==
    IF prop # "undefined" THEN prop = "true" ELSE st

\* renderBody: the body element, or what is shown for a missing bodyHtml.
renderBody(html, prop, st) ==
    IF html # <<>>
    THEN applyRemoteImagesPolicy(html, getAllowRemoteImages(prop, st))
    ELSE [kind |-> "fallback", elements |-> <<>>]

shouldShowRemoteImagesBanner(html, prop, st) ==
    /\ html # <<>>
    /\ containsRemoteImages(html)
    /\ ~getAllowRemoteImages(prop, st)

\* Variant of onBodyHtmlChange that resets the state whatever the prop is.
onBodyHtmlChange_always(prop, st) == FALSE

\* @Watch('bodyHtml'): the new allowRemoteImagesState
onBodyHtmlChange(prop, st) ==
    IF prop = "undefined" THEN FALSE ELSE st

\* The new allowRemoteImagesState and the values emitted.
enableRemoteImages(prop, st) ==
    IF prop # "undefined"
    THEN [state |-> st, emits |-> <<TRUE>>]
    ELSE [state |-> TRUE, emits |-> <<>>]

\* render(): the banner and the body shown for the new props and state.
Rendered ==
    /\ banner' = shouldShowRemoteImagesBanner(bodyHtml', allowRemoteImages',
                                              allowRemoteImagesState')
    /\ renderedBody' = renderBody(bodyHtml', allowRemoteImages',
                                  allowRemoteImagesState')

InitViewer ==
    /\ allowRemoteImages \in {"undefined", "true", "false"}
    /\ allowRemoteImagesState = FALSE
    /\ bodyHtml \in Bodies
    /\ emitted = <<>>
    /\ clicks = 0
    /\ clickedSinceBody = FALSE
    /\ banner = shouldShowRemoteImagesBanner(bodyHtml, allowRemoteImages, FALSE)
    /\ renderedBody = renderBody(bodyHtml, allowRemoteImages, FALSE)
    /\ vpc = "live"
    /\ SplitIdle
    /\ TreeIdle
    /\ HeaderIdle
    /\ EditorIdle

\* The consumer sets, changes or removes the allowRemoteImages prop.
SetAllowRemoteImages ==
    /\ vpc = "live"
    /\ \E v \in {"undefined", "true", "false"} :
          /\ v # allowRemoteImages
          /\ allowRemoteImages' = v
    /\ UNCHANGED <<allowRemoteImagesState, bodyHtml, emitted, clicks,
                   clickedSinceBody, vpc>>
    /\ Rendered
    /\ UNCHANGED <<splitVars, treeVars, headerVars, editorVars>>

\* The consumer gives another bodyHtml: the watcher runs.
ChangeBodyHtml ==
    /\ vpc = "live"
    /\ \E html \in Bodies :
          /\ html # bodyHtml
          /\ bodyHtml' = html
    /\ allowRemoteImagesState' =
          onBodyHtmlChange(allowRemoteImages, allowRemoteImagesState)
    /\ clickedSinceBody' = FALSE
    /\ UNCHANGED <<allowRemoteImages, emitted, clicks, vpc>>
    /\ Rendered
    /\ UNCHANGED <<splitVars, treeVars, headerVars, editorVars>>

\* The user clicks the load-images button of the banner.
ClickLoadImages ==
    /\ vpc = "live"
    /\ banner
    /\ clicks < MaxClicks
    /\ LET r == enableRemoteImages(allowRemoteImages, allowRemoteImagesState)
       IN  /\ allowRemoteImagesState' = r.state
           /\ emitted' = emitted \o r.emits
    /\ clicks' = clicks + 1
    /\ clickedSinceBody' = TRUE
    /\ UNCHANGED <<allowRemoteImages, bodyHtml, vpc>>
    /\ Rendered
    /\ UNCHANGED <<splitVars, treeVars, headerVars, editorVars>>

NextViewer ==
    \/ SetAllowRemoteImages
    \/ ChangeBodyHtml
    \/ ClickLoadImages

SpecViewer == InitViewer /\ [][NextViewer]_vars

(***************************************************************************)
(* CodeEditor                                                              *)
(***************************************************************************)
\* findFirstError as the function render calls.
RECURSIVE findFirstError(_), firstFound(_, _, _)
firstFound(node, keys, i) ==
    IF i > Len(keys)
    THEN Undefined
    ELSE IF keys[i] = ErrorsKey \/ ~isNestedObject(Get(node, keys[i]))
    THEN firstFound(node, keys, i + 1)
    ELSE LET found == findFirstError(Get(node, keys[i]))
         IN  IF Truthy(found) THEN found ELSE firstFound(node, keys, i + 1)
findFirstError(node) ==
    IF isNotObject(node)
    THEN Undefined
    ELSE IF localErrors(node).kind = "found"
    THEN localErrors(node).v
    ELSE firstFound(node, ObjectKeys(node), 1)

\* isEmpty of lodash-es
isEmpty(v) ==
    CASE v.t \in {"object", "array"} -> v.kids = <<>>
      [] v.t = "string" -> v.s = ""
      [] OTHER -> TRUE

\* The props the model gives the editor.
FormDatas == {Undefined, Null, Obj(<<>>), Num("1")}
Requireds == {Undefined, Bool("false"), Bool("true")}
EmptyChildTree == Obj(<<Entry("a", Obj(<<>>))>>)
ErrorSchemas ==
    {Undefined, Obj(<<>>), EmptyChildTree, ErrorsOnly(<<>>), ErrorsOnly(<<Str("")>>),
     RequiredTree, BadABTree, DeepTree}

\* JSON.stringify(formData, null, '    ') on FormDatas.
stringify(v) ==
    CASE v = Undefined -> Undefined
      [] v = Null -> Str("null")
      [] v = Obj(<<>>) -> Str("{}")
      [] v = Num("1") -> Str("1")

\* JSON.parse on the texts of the change events of the model.
Texts == {"{}", "null", "1", "{"}
Thrown(name, message) == [name |-> name, message |-> message]
Parsed(v) == [ok |-> TRUE, value |-> v, error |-> Thrown("", "")]
Failed(error) == [ok |-> FALSE, value |-> Undefined, error |-> error]
parse(text) ==
    CASE text = "{}" -> Parsed(Obj(<<>>))
      [] text = "null" -> Parsed(Null)
      [] text = "1" -> Parsed(Num("1"))
      [] text = "{" -> Failed(Thrown("SyntaxError", "Unexpected end of JSON input"))

\* What props.onChange does when called: it returns or it throws.
Returns == Thrown("", "")
OnChangeBehaviours == {Returns, Thrown("Error", "x"), Thrown("SyntaxError", "")}

\* `Invalid JSON: ${error.message}`
InvalidJson(message) ==
    CASE message = "Unexpected end of JSON input"
            -> "Invalid JSON: Unexpected end of JSON input"
      [] message = "" -> "Invalid JSON: "

\* render() of the earlier version of the component, which has no modified
\* flag: the props of limel-code-editor.
renderBefore(error, data, tree) ==
    LET hasSchemaErrors == ~isEmpty(tree)
    IN  [value |-> stringify(data),
         invalid |-> error # "" \/ hasSchemaErrors,
         helperText |-> IF error # "" THEN Str(error)
                        ELSE IF hasSchemaErrors THEN findFirstError(tree)
                        ELSE Undefined]

\* Variant of render in which a schema error goes before the parse error.
render_schemaFirst(error, mod, data, tree, req) ==
    LET hasSchemaErrors == ~isEmpty(tree)
        hasValue == data # Undefined /\ data # Null
        shouldShowSchemaErrors ==
            hasSchemaErrors /\ (mod \/ hasValue \/ ~Truthy(req))
    IN  [widget |->
            [value |-> stringify(data),
             invalid |-> error # "" \/ shouldShowSchemaErrors,
             helperText |-> IF shouldShowSchemaErrors THEN findFirstError(tree)
                            ELSE IF error # "" THEN Str(error)
                            ELSE Undefined],
         consulted |-> shouldShowSchemaErrors]

\* The render of an earlier version: schema errors are shown ungated.
render_ungated(error, mod, data, tree, req) ==
    LET hasSchemaErrors == ~isEmpty(tree)
    IN  [widget |->
            [value |-> stringify(data),
             invalid |-> error # "" \/ hasSchemaErrors,
             helperText |-> IF error # "" THEN Str(error)
                            ELSE IF hasSchemaErrors THEN findFirstError(tree)
                            ELSE Undefined],
         consulted |-> error = "" /\ hasSchemaErrors]

\* render(): the props of limel-code-editor, and whether findFirstError ran.
render(error, mod, data, tree, req) ==
    LET hasSchemaErrors == ~isEmpty(tree)
        hasValue == data # Undefined /\ data # Null
        shouldShowSchemaErrors ==
            hasSchemaErrors /\ (mod \/ hasValue \/ ~Truthy(req))
    IN  [widget |->
            [value |-> stringify(data),
             invalid |-> error # "" \/ shouldShowSchemaErrors,
             helperText |-> IF error # "" THEN Str(error)
                            ELSE IF shouldShowSchemaErrors THEN findFirstError(tree)
                            ELSE Undefined],
         consulted |-> error = "" /\ shouldShowSchemaErrors]

\* The catch block of handleChange.
caught(error) ==
    IF error.name = "SyntaxError"
    THEN InvalidJson(error.message)
    ELSE "Should be a valid JSON document"

\* Variant of handleChange that marks the field modified only when the text
\* parses.
handleChange_modifiedOnSuccess(text, behaviour, error, mod, has) ==
    IF ~has
    THEN [validationError |-> error, modified |-> mod, calls |-> <<>>,
          kind |-> "ignored"]
    ELSE IF ~parse(text).ok
    THEN [validationError |-> caught(parse(text).error), modified |-> mod,
          calls |-> <<>>, kind |-> "failed"]
    ELSE IF behaviour # Returns
    THEN [validationError |-> caught(behaviour), modified |-> TRUE,
          calls |-> <<parse(text).value>>, kind |-> "threw"]
    ELSE [validationError |-> "", modified |-> TRUE,
          calls |-> <<parse(text).value>>, kind |-> "parsed"]

\* Variant of handleChange that hands props.onChange the old value when the
\* text does not parse.
handleChange_callsOnFailure(text, behaviour, error, mod, has) ==
    IF ~has
    THEN [validationError |-> error, modified |-> mod, calls |-> <<>>,
          kind |-> "ignored"]
    ELSE IF ~parse(text).ok
    THEN [validationError |-> caught(parse(text).error), modified |-> TRUE,
          calls |-> <<Undefined>>, kind |-> "failed"]
    ELSE IF behaviour # Returns
    THEN [validationError |-> caught(behaviour), modified |-> TRUE,
          calls |-> <<parse(text).value>>, kind |-> "threw"]
    ELSE [validationError |-> "", modified |-> TRUE,
          calls |-> <<parse(text).value>>, kind |-> "parsed"]

\* handleChange(event): the new state, the calls of props.onChange, and
\* whether setState was called.
handleChange(text, behaviour, error, mod, has) ==
    IF ~has
    THEN [validationError |-> error, modified |-> mod, calls |-> <<>>,
          kind |-> "ignored"]
    ELSE IF ~parse(text).ok
    THEN [validationError |-> caught(parse(text).error), modified |-> TRUE,
          calls |-> <<>>, kind |-> "failed"]
    ELSE IF behaviour # Returns
    THEN [validationError |-> caught(behaviour), modified |-> TRUE,
          calls |-> <<parse(text).value>>, kind |-> "threw"]
    ELSE [validationError |-> "", modified |-> TRUE,
          calls |-> <<parse(text).value>>, kind |-> "parsed"]

\* componentDidUpdate(prevProps): the new validationError
componentDidUpdate(changed, error) ==
    IF changed /\ error # "" THEN "" ELSE error

\* The component re-renders with its new props and state.
Rerender ==
    LET r == render(validationError', modified', formData', errorSchema', required')
    IN  /\ widget' = r.widget
        /\ consulted' = r.consulted

InitEditor ==
    /\ validationError = ""
    /\ modified = FALSE
    /\ formData \in FormDatas
    /\ errorSchema \in ErrorSchemas
    /\ required \in Requireds
    /\ hasOnChange \in BOOLEAN
    /\ onChangeArgs = <<>>
    /\ widget = render("", FALSE, formData, errorSchema, required).widget
    /\ consulted = render("", FALSE, formData, errorSchema, required).consulted
    /\ lastEvent = "none"
    /\ formDataChanged = FALSE
    /\ lastChange = [text |-> "none", behaviour |-> [name |-> "", message |-> ""]]
    /\ lastCounted = "none"
    /\ handlerAlways = hasOnChange
    /\ epc = "live"
    /\ SplitIdle
    /\ TreeIdle
    /\ HeaderIdle
    /\ ViewerIdle

\* The widget emits a change event with the text of the editor.
HandleChange ==
    /\ epc = "live"
    /\ \E text \in Texts, behaviour \in OnChangeBehaviours :
          LET r == handleChange(text, behaviour, validationError, modified,
                                hasOnChange)
          IN  /\ validationError' = r.validationError
              /\ modified' = r.modified
              /\ onChangeArgs' = r.calls
              /\ lastEvent' = r.kind
              /\ epc' = IF r.kind = "ignored" THEN "live" ELSE "updated"
              /\ lastChange' = [text |-> text, behaviour |-> behaviour]
    /\ lastCounted' = "change"
    /\ formDataChanged' = FALSE
    /\ UNCHANGED <<formData, errorSchema, required, hasOnChange, handlerAlways>>
    /\ IF epc' = "updated" THEN Rerender ELSE UNCHANGED <<widget, consulted>>
    /\ UNCHANGED <<splitVars, treeVars, headerVars, viewerVars>>

\* The form gives the editor its formData again: another value, another
\* object of the same value, or the very same one.
UpdateFormData ==
    /\ epc = "live"
    /\ \E data \in FormDatas, same \in BOOLEAN :
          /\ same => data = formData
          /\ (data = formData /\ data.t \notin {"object", "array"}) => same
          /\ formData' = data
          /\ formDataChanged' = ~same
    /\ lastEvent' = IF formDataChanged' THEN "formData" ELSE "props"
    /\ lastCounted' = IF formDataChanged' THEN "formData" ELSE lastCounted
    /\ epc' = "updated"
    /\ UNCHANGED <<validationError, modified, errorSchema, required, hasOnChange,
                   onChangeArgs, lastChange, handlerAlways>>
    /\ Rerender
    /\ UNCHANGED <<splitVars, treeVars, headerVars, viewerVars>>

\* The form gives the editor another errorSchema, required or onChange.
UpdateProps ==
    /\ epc = "live"
    /\ \E tree \in ErrorSchemas, req \in Requireds, has \in BOOLEAN :
          /\ \/ (tree # errorSchema /\ req = required /\ has = hasOnChange)
             \/ (tree = errorSchema /\ req # required /\ has = hasOnChange)
             \/ (tree = errorSchema /\ req = required /\ has # hasOnChange)
          /\ errorSchema' = tree
          /\ required' = req
          /\ hasOnChange' = has
          /\ handlerAlways' = (handlerAlways /\ has)
    /\ formDataChanged' = FALSE
    /\ lastEvent' = "props"
    /\ epc' = "updated"
    /\ UNCHANGED <<validationError, modified, formData, onChangeArgs, lastChange,
                   lastCounted>>
    /\ Rerender
    /\ UNCHANGED <<splitVars, treeVars, headerVars, viewerVars>>

\* componentDidUpdate(prevProps), and the render its setState causes.
ComponentDidUpdate ==
    /\ epc = "updated"
    /\ validationError' = componentDidUpdate(formDataChanged, validationError)
    /\ formDataChanged' = FALSE
    /\ epc' = "live"
    /\ UNCHANGED <<modified, formData, errorSchema, required, hasOnChange,
                   onChangeArgs, lastEvent, lastChange, lastCounted, handlerAlways>>
    /\ Rerender
    /\ UNCHANGED <<splitVars, treeVars, headerVars, viewerVars>>

NextEditor ==
    \/ HandleChange
    \/ UpdateFormData
    \/ UpdateProps
    \/ ComponentDidUpdate

SpecEditor == InitEditor /\ [][NextEditor]_vars

(***************************************************************************)
(* Properties of splitEmailAddressList                                     *)
(***************************************************************************)
RECURSIVE SortedSeq(_)
SortedSeq(S) ==
    IF S = {} THEN <<>> ELSE <<SetMin(S)>> \o SortedSeq(S \ {SetMin(S)})

RECURSIVE Flatten(_)
Flatten(ss) == IF ss = <<>> THEN <<>> ELSE Head(ss) \o Flatten(Tail(ss))

\* The pieces of v between the positions of S, in order.
TokensBetween(v, S) ==
    LET cuts == <<0>> \o SortedSeq(S) \o <<Len(v) + 1>>
    IN  [j \in 1..(Len(cuts) - 1) |-> SubSeq(v, cuts[j] + 1, cuts[j + 1] - 1)]

IsBlank(s) == \A i \in 1..Len(s) : s[i] \in Whitespace
NotBlank(s) == ~IsBlank(s)

TrimmedNonEmpty(toks) ==
    LET solid == SelectSeq(toks, NotBlank)
    IN  [j \in 1..Len(solid) |-> Trim(solid[j])]

Pushed(cur, ps) == IF IsBlank(cur) THEN ps ELSE Append(ps, Trim(cur))

\* C1: a comma is a separator (it ends the token and is discarded) exactly
\* when it is read with inQuotes false and angleDepth 0; any other comma is
\* appended to the current token.  The documented example splits in two.
C1_Step ==
    (Reading /\ value[pos] = ",") =>
        IF ~state.inQuotes /\ state.angleDepth = 0
        THEN /\ current' = <<>>
             /\ parts' = Pushed(current, parts)
             /\ seps' = seps \cup {pos}
        ELSE /\ current' = Append(current, ",")
             /\ parts' = parts
             /\ seps' = seps
C1_Example ==
    (pc' = "done" /\ value' = DoeJaneInput) =>
        parts' = <<DoeJaneFirst, DoeJaneSecond>>
C1_CommaSeparatesOnlyOutside == [][C1_Step /\ C1_Example]_vars

C1_Witness ==
    /\ pc = "done"
    /\ seps # {}
    /\ \E i \in 1..Len(parts) :
          /\ \E j \in 1..Len(parts[i]) : parts[i][j] = ","
          /\ parts[i][1] \in {"<", "\""}

\* C2: the result is the trimmed tokens between the separator commas, in
\* order, without the blank ones; no element is empty or has whitespace at
\* an edge; split('') = [] and split('a,b,,c') = ['a','b','c'].
C2_TrimmedNonEmptyTokens ==
    pc = "done" =>
        /\ parts = TrimmedNonEmpty(TokensBetween(value, seps))
        /\ \A i \in 1..Len(parts) :
              /\ parts[i] # <<>>
              /\ parts[i][1] \notin Whitespace
              /\ parts[i][Len(parts[i])] \notin Whitespace
        /\ (value = <<>> => parts = <<>>)
        /\ (value = AbcInput => parts = << <<"a">>, <<"b">>, <<"c">> >>)

C2_Witness ==
    /\ pc = "done"
    /\ value = SpacedInput
    /\ parts = << <<"a">>, <<"b">> >>
    /\ Cardinality(seps) = 3

\* C3: a string without comma, quote, angle bracket and backslash yields
\* [trim(s)] when trim(s) is non-empty and [] otherwise.
SpecialCharacters == {",", "\"", "<", ">", "\\"}
IsPlain(s) == \A i \in 1..Len(s) : s[i] \notin SpecialCharacters
C3_PlainStringIsOneToken ==
    (pc = "done" /\ IsPlain(value)) =>
        parts = IF Trim(value) # <<>> THEN <<Trim(value)>> ELSE <<>>

C3_Witness ==
    /\ pc = "done"
    /\ IsPlain(value)
    /\ Len(parts) = 1
    /\ Len(parts[1]) < Len(value)
    /\ \E i \in 1..Len(parts[1]) : parts[1][i] \in Whitespace

\* C4: the characters of the result, in order, are the characters of the
\* input without the separator commas and without the whitespace at the
\* edges of each token; everything else is preserved.
IsKept(v, S, i) ==
    /\ i \notin S
    /\ LET lo == SetMax({0} \cup {j \in S : j < i})
           hi == SetMin({Len(v) + 1} \cup {j \in S : j > i})
       IN  /\ \E j \in (lo + 1)..i : v[j] \notin Whitespace
           /\ \E j \in i..(hi - 1) : v[j] \notin Whitespace
KeptCharacters(v, S) ==
    LET ks == SortedSeq({i \in 1..Len(v) : IsKept(v, S, i)})
    IN  [j \in 1..Len(ks) |-> v[ks[j]]]
C4_NoLiteralContentLost ==
    pc = "done" => Flatten(parts) = KeptCharacters(value, seps)

C4_Witness ==
    /\ pc = "done"
    /\ value = EscapedInput
    /\ Len(parts) = 2
    /\ Len(Flatten(parts)) = 10

\* C5: angleDepth changes only outside a quoted run, inQuotes is toggled
\* only at angleDepth 0, escapeNext is set and cleared only inside a quoted
\* run, and a backslash read outside a quoted run does not set escapeNext.
C5_Step ==
    /\ (state'.angleDepth # state.angleDepth => ~state.inQuotes)
    /\ (state'.inQuotes # state.inQuotes => state.angleDepth = 0)
    /\ (state'.escapeNext # state.escapeNext => state.inQuotes)
    /\ (state.escapeNext => state.inQuotes)
    /\ (state'.escapeNext => state'.inQuotes)
    /\ (Reading /\ value[pos] = "\\" /\ ~state.inQuotes => ~state'.escapeNext)
C5_StateChangesAreGuarded == [][C5_Step]_vars

C5_Witness ==
    /\ pc = "scan"
    /\ pos = 4
    /\ value[1] = "\\"
    /\ value[2] = "\""
    /\ value[3] = "\\"
    /\ state.escapeNext
    /\ state.inQuotes

\* C6: the scan reads every character exactly once, in order, can always
\* take its next step, ends, and at the end of the input flushes the
\* remaining token whatever inQuotes, escapeNext and angleDepth are.
C6_Step ==
    /\ Reading => (pos' = pos + 1 /\ value' = value /\ pc' = "scan")
    /\ (pc = "scan" /\ pos > Len(value)) =>
          /\ pc' = "done"
          /\ parts' = Pushed(current, parts)
          /\ current' = <<>>
    /\ pc = "done" => UNCHANGED splitVars
C6_Total ==
    /\ [][C6_Step]_vars
    /\ [](pc = "scan" => (pos <= Len(value) + 1 /\ ENABLED <<NextSplit>>_vars))
    /\ <>(pc = "done")

C6_Witness ==
    /\ pc = "done"
    /\ pos = Len(value) + 1
    /\ state.inQuotes
    /\ state.escapeNext
    /\ parts # <<>>
    /\ value[Len(value)] = "\\"

\* C17: a character read while escapeNext is set is appended verbatim and
\* clears escapeNext; it changes neither inQuotes nor angleDepth and ends no
\* token, so an escaped quote does not close the quoted run and an escaped
\* backslash does not start a new escape.
C17_Step ==
    (Reading /\ state.escapeNext) =>
        /\ current' = Append(current, value[pos])
        /\ state' = [state EXCEPT !.escapeNext = FALSE]
        /\ parts' = parts
        /\ seps' = seps
C17_EscapedCharacterIsLiteral == [][C17_Step]_vars

C17_Witness ==
    /\ pc = "scan"
    /\ pos = 5
    /\ SubSeq(value, 1, 4) = <<"\"", "\\", "\"", ",">>
    /\ current = <<"\"", "\\", "\"", ",">>
    /\ state = [inQuotes |-> TRUE, escapeNext |-> FALSE, angleDepth |-> 0]
    /\ parts = <<>>

\* C18: angleDepth is never negative.  Outside quotes a '>' read at depth 0
\* is appended and leaves the state as it is, and a '>' read at a positive
\* depth is appended and lowers the depth by exactly one.
C18_Step ==
    (Reading /\ value[pos] = ">" /\ ~state.inQuotes) =>
        /\ current' = Append(current, ">")
        /\ parts' = parts
        /\ state' = IF state.angleDepth = 0
                     THEN state
                     ELSE [state EXCEPT !.angleDepth = state.angleDepth - 1]
C18_AngleDepthNeverNegative ==
    /\ [](state.angleDepth >= 0)
    /\ [][C18_Step]_vars

C18_Witness ==
    /\ pc = "scan"
    /\ pos = 4
    /\ SubSeq(value, 1, 3) = <<">", "<", ">">>
    /\ current = <<">", "<", ">">>
    /\ state = InitialState

\* C19: a double quote read while angleDepth is positive is appended to the
\* current token and changes neither inQuotes nor angleDepth.
C19_Step ==
    (Reading /\ value[pos] = "\"" /\ state.angleDepth > 0) =>
        /\ current' = Append(current, "\"")
        /\ state' = state
        /\ parts' = parts
C19_QuoteInsideAngleIsLiteral == [][C19_Step]_vars

C19_Witness ==
    /\ pc = "scan"
    /\ pos = 4
    /\ SubSeq(value, 1, 3) = <<"<", "\"", ",">>
    /\ current = <<"<", "\"", ",">>
    /\ state = [inQuotes |-> FALSE, escapeNext |-> FALSE, angleDepth |-> 1]
    /\ parts = <<>>

(***************************************************************************)
(* Properties of getHeaderValues                                           *)
(***************************************************************************)
\* C11: only the header kinds `to` and `cc` are split: their values are the
\* tokens of splitEmailAddressList, and for subject, from and date the
\* scanner never runs and the values are the one-element sequence of the raw
\* value, untrimmed and unsplit.
C11_OnlyToAndCcAreSplit ==
    /\ pc \in {"scan", "done"} => hType \in {"to", "cc"}
    /\ pc = "returned" =>
          IF hType \in {"to", "cc"}
          THEN /\ pos = Len(value) + 1
               /\ headerValues = TrimmedNonEmpty(TokensBetween(value, seps))
          ELSE /\ pos = 1
               /\ headerValues = <<value>>

C11_Witness ==
    /\ pc = "returned"
    /\ hType = "from"
    /\ value = SpacedInput
    /\ headerValues = <<SpacedInput>>

(***************************************************************************)
(* Properties of the remote images of EmailViewer                          *)
(***************************************************************************)
\* C13: while the allowRemoteImages prop is undefined, remote images are
\* allowed only if the user clicked load-images after the last change of
\* bodyHtml.
C13_ApprovalIsPerEmail ==
    (vpc = "live" /\ allowRemoteImages = "undefined" /\ allowRemoteImagesState)
        => clickedSinceBody

\* C14: every click of the load-images button emits
\* allowRemoteImagesChange(true), whether the prop is provided or not.
C14_EveryClickEmits ==
    vpc = "live" => emitted = [i \in 1..clicks |-> TRUE]

\* The url, after leading whitespace and whatever the case of its letters,
\* begins with http:// or https://.
IsHttpUrl(u) ==
    \E n \in 0..Len(u) :
        /\ \A i \in 1..n : u[i] \in Whitespace
        /\ \E prefix \in {HttpPrefix, HttpsPrefix} :
              /\ Len(u) >= n + Len(prefix)
              /\ \A j \in 1..Len(prefix) : LowerCharacter(u[n + j]) = prefix[j]

\* Remote images are allowed in what the last render shows.
Allowed ==
    IF allowRemoteImages = "undefined"
    THEN allowRemoteImagesState
    ELSE allowRemoteImages = "true"

\* C15: while remote images are not allowed the rendered body is bodyHtml
\* itself; while they are allowed an image gets its data-remote-src as src
\* exactly when that value is an http or https url, keeps its src otherwise,
\* and no image keeps a data-remote-src attribute.
C15_OnlyAllowedHttpImagesLoad ==
    (vpc = "live" /\ bodyHtml # <<>>) =>
        IF ~Allowed
        THEN renderedBody = [kind |-> "verbatim", elements |-> bodyHtml]
        ELSE /\ renderedBody.kind = "serialized"
             /\ Len(renderedBody.elements) = Len(bodyHtml)
             /\ \A i \in 1..Len(bodyHtml) :
                   LET before == bodyHtml[i]
                       after == renderedBody.elements[i]
                   IN  /\ after.tag = before.tag
                       /\ ~after.remoteSrc.present
                       /\ after.src =
                             IF before.remoteSrc.present /\ IsHttpUrl(before.remoteSrc.v)
                             THEN Attr(before.remoteSrc.v)
                             ELSE before.src

C15_Witness ==
    /\ vpc = "live"
    /\ allowRemoteImages = "undefined"
    /\ allowRemoteImagesState
    /\ bodyHtml = <<Img(Attr(CidUrl), Attr(ScriptUrl))>>
    /\ renderedBody.elements = <<Img(Attr(CidUrl), NoAttr)>>

\* C16: while the allowRemoteImages prop is provided, what is rendered
\* follows the prop whatever allowRemoteImagesState is, a click emits
\* allowRemoteImagesChange(true) and nothing else and leaves
\* allowRemoteImagesState as it is, and so does a change of bodyHtml.
C16_State ==
    (vpc = "live" /\ allowRemoteImages # "undefined") =>
        /\ bodyHtml # <<>> =>
              (renderedBody.kind = "serialized" <=> allowRemoteImages = "true")
        /\ banner => allowRemoteImages = "false"
C16_Step ==
    (vpc = "live" /\ allowRemoteImages # "undefined") =>
        /\ clicks' = clicks + 1 =>
              /\ allowRemoteImagesState' = allowRemoteImagesState
              /\ emitted' = Append(emitted, TRUE)
              /\ UNCHANGED <<allowRemoteImages, bodyHtml, banner, renderedBody>>
        /\ bodyHtml' # bodyHtml =>
              /\ allowRemoteImagesState' = allowRemoteImagesState
              /\ emitted' = emitted
C16_ConsumerOwnsTheChoice == []C16_State /\ [][C16_Step]_vars

C16_Witness ==
    /\ vpc = "live"
    /\ allowRemoteImages = "false"
    /\ allowRemoteImagesState
    /\ emitted = <<TRUE>>
    /\ clicks = 2
    /\ ~clickedSinceBody
    /\ banner
    /\ renderedBody.kind = "verbatim"

(***************************************************************************)
(* Properties of findFirstError                                            *)
(***************************************************************************)
IsMapping(v) == v.t \in {"object", "array"}

\* The node has an __errors property whose value is a non-empty array.
HasLocalErrors(v) ==
    /\ v.t = "object"
    /\ \E i \in 1..Len(v.kids) :
          /\ v.kids[i].k = ErrorsKey
          /\ v.kids[i].v.t = "array"
          /\ v.kids[i].v.kids # <<>>
FirstLocalError(v) ==
    LET i == CHOOSE j \in 1..Len(v.kids) : v.kids[j].k = ErrorsKey
    IN  v.kids[i].v.kids[1].v

\* The values under the keys other than __errors, in insertion order.
IsChildEntry(e) == e.k # ErrorsKey
ChildrenInInsertionOrder(v) ==
    LET es == SelectSeq(v.kids, IsChildEntry)
    IN  [i \in 1..Len(es) |-> es[i].v]

\* The same values in the order of Object.keys: an integer-like key ranks by
\* its number, any other key after all of them by its insertion position.
KeyRank(v, i) ==
    IF \E n \in 1..Len(IndexKeySeq) : IndexKeySeq[n] = v.kids[i].k
    THEN CHOOSE n \in 1..Len(IndexKeySeq) : IndexKeySeq[n] = v.kids[i].k
    ELSE Len(IndexKeySeq) + i
ChildrenInKeyOrder(v) ==
    LET idx == {i \in 1..Len(v.kids) : v.kids[i].k # ErrorsKey}
        ranks == SortedSeq({KeyRank(v, i) : i \in idx})
        At(r) == CHOOSE i \in idx : KeyRank(v, i) = r
    IN  [n \in 1..Len(ranks) |-> v.kids[At(ranks[n])].v]

FirstIndex(S) == SetMin(S)

\* Some node of the subtree of v has a non-empty __errors array.
RECURSIVE ContainsError(_)
ContainsError(v) ==
    /\ IsMapping(v)
    /\ \/ HasLocalErrors(v)
       \/ \E i \in 1..Len(v.kids) :
             v.kids[i].k # ErrorsKey /\ ContainsError(v.kids[i].v)

\* The first element of the first non-empty __errors array of the subtree of
\* v, parents before children, children in insertion order.
RECURSIVE FirstMessage(_)
FirstMessage(v) ==
    IF HasLocalErrors(v)
    THEN FirstLocalError(v)
    ELSE LET cs == ChildrenInInsertionOrder(v)
             hit == {i \in 1..Len(cs) : ContainsError(cs[i])}
         IN  FirstMessage(cs[FirstIndex(hit)])

IsEmptyMessage(v) ==
    v \in {Undefined, Null, Str(""), Num("0"), Num("NaN"), Bool("false")}

\* What the search of v yields: its own first local error, else what the
\* first child in Object.keys order with a non-empty yield yields.
RECURSIVE Yield(_)
Yield(v) ==
    IF ~IsMapping(v)
    THEN Undefined
    ELSE IF HasLocalErrors(v)
    THEN FirstLocalError(v)
    ELSE LET cs == ChildrenInKeyOrder(v)
             hit == {i \in 1..Len(cs) : ~IsEmptyMessage(Yield(cs[i]))}
         IN  IF hit = {} THEN Undefined ELSE Yield(cs[FirstIndex(hit)])

\* C7: a call on a node whose __errors is a non-empty array returns the
\* first element of that array at once, without looking at any other key.
C7_Step ==
    /\ (tpc = "enter" /\ HasLocalErrors(arg)) =>
          /\ tpc' = "ret"
          /\ retval' = FirstLocalError(arg)
          /\ stack' = stack
          /\ calls' = calls
    /\ (tpc' = "done" /\ HasLocalErrors(schema')) =>
          /\ result' = FirstLocalError(schema')
          /\ calls' = 1
C7_LocalErrorsTakePrecedence == [][C7_Step]_vars

C7_Witness ==
    /\ tpc = "done"
    /\ HasLocalErrors(schema)
    /\ Len(Get(schema, ErrorsKey).kids) = 2
    /\ result = Str("E2")
    /\ \E i \in 1..Len(schema.kids) :
          schema.kids[i].k # ErrorsKey /\ ContainsError(schema.kids[i].v)

\* C8 as stated: for a node without local errors the result is the first
\* message of the first child, in insertion order, whose subtree contains
\* any error message.
C8_FirstChildInInsertionOrder ==
    (tpc = "done" /\ schema.t = "object" /\ ~HasLocalErrors(schema)) =>
        LET cs == ChildrenInInsertionOrder(schema)
            hit == {i \in 1..Len(cs) : ContainsError(cs[i])}
        IN  hit # {} => result = FirstMessage(cs[FirstIndex(hit)])

\* C8 as amended: for a node without local errors the result is the yield
\* of the first child, in Object.keys order (integer-like keys ascending,
\* then the others in insertion order), whose yield is a non-empty message;
\* a child whose first-found message is empty is passed over; undefined if
\* no child yields one.
C8_FirstChildInKeyOrderWithMessage ==
    (tpc = "done" /\ IsMapping(schema) /\ ~HasLocalErrors(schema)) =>
        LET cs == ChildrenInKeyOrder(schema)
            hit == {i \in 1..Len(cs) : ~IsEmptyMessage(Yield(cs[i]))}
        IN  /\ hit = {} => result = Undefined
            /\ hit # {} =>
                  /\ result = Yield(cs[FirstIndex(hit)])
                  /\ ~IsEmptyMessage(result)

C8_Witness ==
    /\ tpc = "done"
    /\ schema.t = "object"
    /\ Len(schema.kids) = 2
    /\ schema.kids[1].k = "a"
    /\ schema.kids[2].k = "0"
    /\ Yield(schema.kids[1].v) = Str("E1")
    /\ Yield(schema.kids[2].v) = Str("E2")
    /\ result = Str("E2")

\* C9: the result is undefined for every input that is not a mapping, for
\* the empty mapping and for every tree without a non-empty __errors array;
\* the search never raises, makes at most one call per node, can always
\* take its next step, and ends.
RECURSIVE Size(_), SumSizes(_, _)
SumSizes(kids, n) == IF n = 0 THEN 0 ELSE Size(kids[n].v) + SumSizes(kids, n - 1)
Size(v) == 1 + SumSizes(v.kids, Len(v.kids))
C9_State ==
    /\ tpc # "raised"
    /\ calls <= Size(schema)
    /\ tpc \in {"enter", "loop", "ret"} => ENABLED <<NextTree>>_vars
    /\ (tpc = "done" /\ (~IsMapping(schema) \/ schema.kids = <<>> \/ ~ContainsError(schema)))
          => result = Undefined
C9_NoErrorFoundAndTotal == []C9_State /\ <>(tpc = "done")

C9_Witness ==
    /\ tpc = "done"
    /\ calls = 3
    /\ result = Undefined
    /\ ~ContainsError(schema)
    /\ \E i \in 1..Len(schema.kids) : HasProperty(schema.kids[i].v, ErrorsKey)

\* C10 as stated: an array as the root, or as the value of a child key,
\* yields no error whatever its elements are, and nothing is raised.
IsChildArrayOnly(v) ==
    /\ v.t = "object"
    /\ ~HasLocalErrors(v)
    /\ \A i \in 1..Len(v.kids) :
          (v.kids[i].k # ErrorsKey /\ IsMapping(v.kids[i].v)) => IsArray(v.kids[i].v)
C10_ArrayYieldsNoError ==
    /\ tpc # "raised"
    /\ (tpc = "done" /\ (IsArray(schema) \/ IsChildArrayOnly(schema)))
          => result = Undefined

\* C10 as amended: nothing is raised; an array is searched like an object
\* keyed by its indices, so an array whose elements are all primitives
\* yields no error, as the root or as a child, and an array root yields what
\* its first element, in index order, with a non-empty yield yields.
HasOnlyPrimitives(v) ==
    IsArray(v) /\ \A i \in 1..Len(v.kids) : ~IsMapping(v.kids[i].v)
IsPrimitiveArrayChildOnly(v) ==
    /\ v.t = "object"
    /\ ~HasLocalErrors(v)
    /\ \A i \in 1..Len(v.kids) :
          (v.kids[i].k # ErrorsKey /\ IsMapping(v.kids[i].v))
              => HasOnlyPrimitives(v.kids[i].v)
C10_ArrayOfPrimitivesYieldsNoError ==
    /\ tpc # "raised"
    /\ (tpc = "done" /\ (HasOnlyPrimitives(schema) \/ IsPrimitiveArrayChildOnly(schema)))
          => result = Undefined
    /\ (tpc = "done" /\ IsArray(schema)) =>
          LET hit == {i \in 1..Len(schema.kids) :
                         ~IsEmptyMessage(Yield(schema.kids[i].v))}
          IN  result = IF hit = {} THEN Undefined
                       ELSE Yield(schema.kids[FirstIndex(hit)].v)

C10_Witness ==
    /\ tpc = "done"
    /\ schema.t = "object"
    /\ result = Undefined
    /\ calls = 2
    /\ \E i \in 1..Len(schema.kids) :
          /\ schema.kids[i].k # ErrorsKey
          /\ schema.kids[i].v = Arr(<<Str("E3")>>)

\* The node has an __errors entry that is an empty array or not an array.
HasVoidErrors(v) ==
    /\ v.t = "object"
    /\ \E i \in 1..Len(v.kids) : v.kids[i].k = ErrorsKey
    /\ ~HasLocalErrors(v)

\* The number of mappings of the tree of v that are not under an __errors key.
RECURSIVE Searchable(_), SumSearchable(_, _)
SumSearchable(kids, n) ==
    IF n = 0
    THEN 0
    ELSE (IF kids[n].k = ErrorsKey THEN 0 ELSE Searchable(kids[n].v))
            + SumSearchable(kids, n - 1)
Searchable(v) ==
    IF IsMapping(v) THEN 1 + SumSearchable(v.kids, Len(v.kids)) ELSE 0

\* C20 as stated: a node whose __errors is an empty array or not an array
\* is searched through its other keys in insertion order: the result is what
\* the first of them with a message yields, undefined if none has one, and
\* nothing under an __errors key is searched.
C20_VoidErrorsThenInsertionOrder ==
    /\ calls <= IF IsMapping(schema) THEN Searchable(schema) ELSE 1
    /\ (tpc = "done" /\ HasVoidErrors(schema)) =>
          LET cs == ChildrenInInsertionOrder(schema)
              hit == {i \in 1..Len(cs) : ~IsEmptyMessage(Yield(cs[i]))}
          IN  result = IF hit = {} THEN Undefined ELSE Yield(cs[FirstIndex(hit)])

\* C20 as amended: a node whose __errors is an empty array or not an array
\* is searched through its other keys in Object.keys order (integer-like
\* keys ascending, then the others in insertion order): the result is what
\* the first of them with a message yields, undefined if none has one, and
\* nothing under an __errors key is searched.
C20_VoidErrorsThenKeyOrder ==
    /\ calls <= IF IsMapping(schema) THEN Searchable(schema) ELSE 1
    /\ (tpc = "done" /\ HasVoidErrors(schema)) =>
          LET cs == ChildrenInKeyOrder(schema)
              hit == {i \in 1..Len(cs) : ~IsEmptyMessage(Yield(cs[i]))}
          IN  result = IF hit = {} THEN Undefined ELSE Yield(cs[FirstIndex(hit)])

C20_Witness ==
    /\ tpc = "done"
    /\ HasVoidErrors(schema)
    /\ Len(schema.kids) = 3
    /\ schema.kids[1] \in {Entry(ErrorsKey, Arr(<<>>)), Entry(ErrorsKey, Str("E1"))}
    /\ schema.kids[2].k = "a"
    /\ schema.kids[3].k = "0"
    /\ Yield(schema.kids[2].v) = Str("E1")
    /\ Yield(schema.kids[3].v) = Str("E2")
    /\ result = Str("E2")
    /\ calls = 2

(***************************************************************************)
(* Properties of CodeEditor                                                *)
(***************************************************************************)
HasSchemaErrors == IsMapping(errorSchema) /\ errorSchema.kids # <<>>
HasValue == formData # Undefined /\ formData # Null
IsRequired == required = Bool("true")

\* C12: in every render findFirstError is called for the helper text only
\* if the error tree is not empty and the field is modified, has a value or
\* is not required, and no schema error is shown without that call; so with
\* no parse error an unmodified required field without a value is not
\* invalid and has no helper text, whatever the error tree is.
C12_SchemaErrorsAreGated ==
    epc # "idle" =>
        /\ consulted => (HasSchemaErrors /\ (modified \/ HasValue \/ ~IsRequired))
        /\ (validationError = "" /\ ~consulted) =>
              (~widget.invalid /\ widget.helperText = Undefined)
        /\ (validationError = "" /\ ~modified /\ IsRequired /\ ~HasValue) =>
              (~widget.invalid /\ widget.helperText = Undefined /\ ~consulted)

C12_Witness ==
    /\ epc = "live"
    /\ lastEvent = "ignored"
    /\ validationError = ""
    /\ ~modified
    /\ IsRequired
    /\ formData = Null
    /\ errorSchema = BadABTree
    /\ ~widget.invalid
    /\ widget.helperText = Undefined

\* C21: in every render a non-empty validationError goes first: the widget
\* is invalid and helperText is validationError, whatever errorSchema,
\* modified, required and formData are, and findFirstError supplies the
\* helper text only when validationError is empty.  The same holds of the
\* render of the earlier version.
C21_ParseErrorGoesFirst ==
    epc # "idle" =>
        /\ validationError # "" =>
              /\ widget.invalid
              /\ widget.helperText = Str(validationError)
              /\ renderBefore(validationError, formData, errorSchema).invalid
              /\ renderBefore(validationError, formData, errorSchema).helperText
                    = Str(validationError)
        /\ consulted => validationError = ""
        /\ (validationError = "" /\ ~consulted) => widget.helperText = Undefined

C21_Witness ==
    /\ epc = "live"
    /\ validationError = "Invalid JSON: Unexpected end of JSON input"
    /\ modified
    /\ formData = Num("1")
    /\ required = Bool("false")
    /\ errorSchema = RequiredTree
    /\ widget.invalid
    /\ widget.helperText = Str("Invalid JSON: Unexpected end of JSON input")

\* The texts that are JSON documents, and the values they denote.
ParsesAsJson(text) == text \in {"{}", "null", "1"}
JsonValue(text) ==
    CASE text = "{}" -> Obj(<<>>)
      [] text = "null" -> Null
      [] text = "1" -> Num("1")
InvalidJsonMessages == {"Invalid JSON: Unexpected end of JSON input"}

\* The step is the handling of a change event.
IsChangeStep ==
    epc = "live" /\ lastEvent' \in {"ignored", "failed", "parsed", "threw"}

\* C22: with props.onChange given, handleChange calls it exactly once, with
\* the parsed value, if the text of the event parses as JSON, and not at all
\* if it does not; in that case formData is left alone and validationError
\* becomes the non-empty 'Invalid JSON: ...' message; either way the handler
\* completes with its setState and nothing is thrown to the caller.
C22_Step ==
    (IsChangeStep /\ hasOnChange) =>
        /\ epc' = "updated"
        /\ formData' = formData
        /\ IF ParsesAsJson(lastChange'.text)
           THEN onChangeArgs' = <<JsonValue(lastChange'.text)>>
           ELSE /\ onChangeArgs' = <<>>
                /\ validationError' # ""
                /\ validationError' \in InvalidJsonMessages
C22_OnChangeIffParsed == [][C22_Step]_vars

C22_Witness ==
    /\ epc = "updated"
    /\ lastEvent = "failed"
    /\ lastChange.text = "{"
    /\ hasOnChange
    /\ onChangeArgs = <<>>
    /\ formData = Obj(<<>>)
    /\ validationError = "Invalid JSON: Unexpected end of JSON input"
    /\ widget.invalid

\* C23: on an editor that has had props.onChange all along, between events
\* validationError is non-empty exactly when the later of the last change
\* event and the last change of formData is a change event whose text did
\* not parse.
C23_ErrorIffLastTextFailed ==
    (epc = "live" /\ handlerAlways) =>
        (validationError # ""
            <=> (lastCounted = "change" /\ ~ParsesAsJson(lastChange.text)))

\* C24: modified is false until the first event, becomes true in every
\* change event handled with props.onChange given, whether the text parses
\* or not, and is never reset; a change event without props.onChange leaves
\* modified, validationError and the widget as they are.  So once modified,
\* with a non-empty error tree and no parse error the widget is invalid and
\* its helper text is what the search of the tree yields.
C24_Step ==
    /\ modified => modified'
    /\ (IsChangeStep /\ hasOnChange) => modified'
    /\ (IsChangeStep /\ ~hasOnChange) =>
          /\ modified' = modified
          /\ validationError' = validationError
          /\ widget' = widget
C24_State ==
    /\ lastEvent = "none" => ~modified
    /\ (epc # "idle" /\ modified /\ HasSchemaErrors /\ validationError = "") =>
          /\ widget.invalid
          /\ consulted
          /\ widget.helperText = Yield(errorSchema)
C24_ModifiedIsSetAndKept == []C24_State /\ [][C24_Step]_vars

C24_Witness ==
    /\ epc = "live"
    /\ lastEvent = "formData"
    /\ lastChange.text = "{"
    /\ modified
    /\ validationError = ""
    /\ IsRequired
    /\ formData = Null
    /\ errorSchema = DeepTree
    /\ widget.invalid
    /\ widget.helperText = Str("Deep")

\* C25: whenever a render marks the widget invalid, its helperText is a
\* defined, non-empty string, in this version of render and in the earlier
\* one.
IsMessage(v) == v.t = "string" /\ v.s # ""
C25_InvalidHasHelperText ==
    epc # "idle" =>
        /\ widget.invalid => IsMessage(widget.helperText)
        /\ renderBefore(validationError, formData, errorSchema).invalid =>
              IsMessage(renderBefore(validationError, formData, errorSchema).helperText)

====
